---- MODULE Spec2Model ----
(***************************************************************************)
(* A model of the crawl engine of the Porta fontium URL crawler            *)
(* (src/main.py): link normalisation and extraction, the paginated crawl   *)
(* loop crawl_tab_links with its two streak counters and its cooperative   *)
(* cancellation, and the periodical expansion pass.                        *)
(***************************************************************************)
EXTENDS Integers, Sequences, FiniteSets, TLC

(***************************************************************************)
(* Bounds of the model.                                                    *)
(***************************************************************************)
\* largest page budget (max_pages) a crawl is started with
MaxPages == 3
\* largest page budget of a crawl of the block corpus
MaxBlockPages == 6
\* the largest page budget of a crawl on the site with varying view settings
MaxViewPages == 2
\* the largest page budget entered in the window
MaxWindowPages == 2
\* a document handed to extract_links_from_html holds at most MaxHtmlItems items
MaxHtmlItems == 3
\* a radio group has at most MaxOptions options
MaxOptions == 3
\* a search form has at most MaxControls controls
MaxControls == 2
\* viewer identifiers 1..NumIds occur in the pages of the small corpus
NumIds == 1
\* number of items (anchors, inline identifier occurrences) of one page
MaxItems == 2
\* the block corpus: NumBlocks result pages of BlockSize identifiers each
NumBlocks == 3
BlockSize == 10

(***************************************************************************)
(* URLs.  A URL is a record of the parts the program looks at: the host,   *)
(* the first path segment, the identifier that follows it, what follows    *)
(* the identifier ("" for nothing, "iipimage" for a rest that holds the     *)
(* text /iipimage/ without digits after it), whether the query holds a     *)
(* language parameter, whether there is a fragment, and how the other      *)
(* parameters of the query are written: "" for none, "raw" for a form      *)
(* urlencode would not produce (a space as %20, a key without =), "enc"    *)
(* for the form urlencode produces.  The host is "www" for                 *)
(* www.portafontium.eu, "bare" for portafontium.eu, "rel" for a relative   *)
(* reference, "other" for any other host.                                  *)
(***************************************************************************)
MkUrl(h, p, i, t, l, f) ==
    [host |-> h, prefix |-> p, id |-> i, tail |-> t, lang |-> l, frag |-> f,
     query |-> ""]

\* Python's None / the empty string where a link is expected
NoLink == MkUrl("none", "none", 0, "", FALSE, FALSE)

\* f"{BASE}/iipimage/{pid}"
ViewerLink(pid) == MkUrl("www", "iipimage", pid, "", FALSE, FALSE)

\* {BASE}/periodical/<k>, a container page of the periodical category
ContainerLink(k) == MkUrl("www", "periodical", k, "", FALSE, FALSE)

\* a container page whose address goes on with /iipimage/
NestedContainerLink(k) == MkUrl("www", "periodical", k, "iipimage", FALSE, FALSE)

\* the viewer form: https://www.portafontium.eu/iipimage/<id>
IsViewer(u) == u.prefix = "iipimage"

\* `"/periodical/" in u`
IsContainer(u) == u.prefix = "periodical"

\* `"/iipimage/" in u`
ContainsIipimage(u) == u.prefix = "iipimage" \/ u.tail = "iipimage"

\* urlencode(parse_qsl(query)): the parameters written as urlencode does
urlencode(q) == IF q = "" THEN "" ELSE "enc"

\* (a variant: only the fragment is dropped)
StripFragmentOnly(u) == IF u.host = "none" THEN u ELSE [u EXCEPT !.frag = FALSE]

\* without a query only the fragment is dropped; otherwise the language
\* parameter is filtered out, the remaining parameters are written anew by
\* urlencode, and urlunparse is given an empty fragment
strip_language_param(u) ==
    IF u = NoLink THEN u
    ELSE IF ~u.lang /\ u.query = "" THEN [u EXCEPT !.frag = FALSE]
    ELSE [u EXCEPT !.lang = FALSE, !.query = urlencode(u.query), !.frag = FALSE]

\* urljoin(BASE, href): a relative reference gets the scheme and host of BASE
urljoin(href) == IF href.host = "rel" THEN [href EXCEPT !.host = "www"] ELSE href

(***************************************************************************)
(* Categories (TABS).  Every category but periodical restricts extraction  *)
(* to viewer links when a page holds viewer identifiers.                   *)
(***************************************************************************)
TabKeys == {"register", "periodical"}

allowed_prefixes(tab) ==
    IF tab = "periodical" THEN {"iipimage", "periodical"}
    ELSE {tab, "iipimage"}

prefer_iipimage_root(tab) == TRUE

\* (a variant: no category prefers the identifiers over the anchors)
PreferAnchorsAlways(tab) == FALSE

prefer_iipimage_only_if_present(tab) == tab # "periodical"

(***************************************************************************)
(* Sequence helpers.                                                       *)
(***************************************************************************)
Range(s) == {s[i] : i \in 1..Len(s)}

\* the loop "if x not in seen: seen.add(x); out.append(x)" over s, started
\* with the elements of `seen` already seen
RECURSIVE AppendNew(_, _, _)
AppendNew(out, seen, s) ==
    IF s = <<>> THEN out
    ELSE IF Head(s) \in seen THEN AppendNew(out, seen, Tail(s))
    ELSE AppendNew(Append(out, Head(s)), seen \cup {Head(s)}, Tail(s))

Dedup(s) == AppendNew(<<>>, {}, s)

NoDup(s) == \A i, j \in 1..Len(s) : s[i] = s[j] => i = j

(***************************************************************************)
(* Pages.  A page is the sequence of its items in document order; an item  *)
(* is an occurrence of a URL, as the href of an anchor or as inline text   *)
(* (a script, an image source), inside or outside the result container.    *)
(***************************************************************************)
MkItem(a, s, u) == [anchor |-> a, scoped |-> s, url |-> u]

\* re.findall(r"/iipimage/(\d+)", text), first occurrences only
extract_iipimage_ids_anywhere(html) ==
    LET hit(it) == it.url.prefix = "iipimage" /\ it.url.id > 0
        idOf(it) == it.url.id
        hits == SelectSeq(html, hit)
    IN  Dedup([i \in 1..Len(hits) |-> idOf(hits[i])])

normalize_pf_link(tab, href) ==
    LET full == urljoin(href) IN
    IF href = NoLink THEN NoLink
    ELSE IF full.host \notin {"www", "bare"} THEN NoLink
    ELSE IF full.prefix \notin allowed_prefixes(tab) THEN NoLink
    ELSE IF prefer_iipimage_root(tab) /\ full.prefix = "iipimage" /\ full.id > 0
         THEN ViewerLink(full.id)
    ELSE strip_language_param([full EXCEPT !.frag = FALSE])

\* the anchors of the most specific result container present, else of the
\* whole document
ScopeAnchors(html) ==
    LET inScope(it) == it.anchor /\ it.scoped
        isAnchor(it) == it.anchor
    IN  IF \E i \in 1..Len(html) : html[i].scoped
        THEN SelectSeq(html, inScope)
        ELSE SelectSeq(html, isAnchor)

extract_links_from_html(tab, html) ==
    LET ids == extract_iipimage_ids_anywhere(html)
        hrefOf(it) == normalize_pf_link(tab, it.url)
        kept(u) == u # NoLink
        scope == ScopeAnchors(html)
        anchors == Dedup(SelectSeq([i \in 1..Len(scope) |-> hrefOf(scope[i])], kept))
    IN  IF tab # "periodical" /\ ids # <<>> /\ prefer_iipimage_only_if_present(tab)
        THEN Dedup([i \in 1..Len(ids) |-> ViewerLink(ids[i])])
        ELSE IF tab = "periodical"
        THEN AppendNew(anchors, Range(anchors),
                       [i \in 1..Len(ids) |-> strip_language_param(ViewerLink(ids[i]))])
        ELSE anchors

(***************************************************************************)
(* What the site can answer.  In the small corpus a page holds at most     *)
(* MaxItems items: inline viewer identifiers and, for the periodical       *)
(* category, anchors to container pages, for another category an anchor to *)
(* a record of the category that carries a language parameter and an       *)
(* anchor whose path is none of the category's.  The block corpus holds    *)
(* NumBlocks pages of BlockSize viewer identifiers each and the empty page.*)
(***************************************************************************)
InlineId(i) == MkItem(FALSE, FALSE, ViewerLink(i))

Anchor(u) == MkItem(TRUE, FALSE, u)

Items(t) ==
    {InlineId(i) : i \in 1..NumIds}
    \cup (IF t = "periodical"
          THEN {Anchor(ContainerLink(1)), Anchor(NestedContainerLink(2))}
          ELSE {Anchor(MkUrl("www", t, 1, "", TRUE, FALSE)),
                Anchor(ContainerLink(1))})

SmallPages(t) ==
    UNION {[1..n -> Items(t)] : n \in 0..MaxItems}

Block(b) == [i \in 1..BlockSize |-> InlineId((b - 1) * BlockSize + i)]

BlockPages ==
    {Block(b) : b \in 1..NumBlocks} \cup {<<>>}

\* the pages of at most one item
SinglePages(t) == {<<>>} \cup {<<it>> : it \in Items(t)}

Pages(c, t) ==
    IF c = "blocks" THEN BlockPages
    ELSE IF c \in {"single", "views", "fields"} THEN SinglePages(t)
    ELSE SmallPages(t)

\* a response: the request failed (network error, timeout, non-2xx), or a page
Failed == <<"failed">>

Responses(c, t) == {<<"ok", h>> : h \in Pages(c, t)} \cup {Failed}

(***************************************************************************)
(* View metadata.  A missing field (None or "") is the empty string.       *)
(***************************************************************************)
MkView(n, d, m, t, k) ==
    [view_name |-> n, view_display_id |-> d, view_dom_id |-> m,
     theme |-> t, theme_token |-> k]

NoView == MkView("", "", "", "", "")

\* Python's `a or b` on strings
Or(a, b) == IF a # "" THEN a ELSE b

SuppliedViewInfos ==
    {MkView("s", "s", "", "", "s")}

BootInfos ==
    {MkView("b", "b", "b", "b", "b"), NoView}

\* view settings with or without the display id and the DOM id
ViewSettings ==
    {MkView("v", d, m, "t", "t") : d \in {"", "d"}, m \in {"", "m"}}

\* what parse_drupal_view_info finds in the bare category page of the site
BootInfosOf(c) == IF c = "views" THEN ViewSettings ELSE BootInfos

\* the exposed-parameter lists a crawl is started with
ExposedItems == {<< <<"q", "x">> >>}

NoItems == << <<"-", "-">> >>

(***************************************************************************)
(* The state: the arguments of crawl_tab_links, its locals and those of    *)
(* expand_periodicals_via_periodical_pages, the stop flag of the window,   *)
(* and history variables the properties are stated with.                   *)
(***************************************************************************)
VARIABLES
    corpus,            \* which pages the site serves
    tab,               \* tab.key
    max_pages,
    delay_s,
    exposed_items,
    view_info,
    stop,              \* MainWindow._stop, read through stop_flag()
    pc,                \* where the crawl is
    view,              \* view_name, view_display_id, view_dom_id, theme, theme_token
    page,              \* the loop variable of the page loop
    page_links,
    all_links,
    seen,
    empty_streak,
    no_new_streak,
    periodical_pages,
    idx,               \* the loop variable of the expansion pass
    out_list,
    out_set,
    result,            \* the list crawl_tab_links returned
    failure,           \* what raised out of crawl_tab_links, "" if nothing
    log,               \* history: requests and delays of the iteration or visit in progress
    gets,              \* history: the page indices requested by a direct GET
    late,              \* history: requests issued after the flag was set
    got,               \* history: outcome of the direct GET of this iteration,
                       \* or of the fetch of the last container page
    disc,              \* history: the links in the order the responses showed them
    emptyRun,          \* history: processed pages in a row without any link
    noNewRun,          \* history: processed pages in a row without a new link
    further,           \* history: iterations begun since noNewRun first was 2
    scen,              \* history: how far the run follows the block scenario
    obs,               \* history: where the flag was observed, and the list then
    stopCtx,           \* history: what was in progress when the flag was set
    btn_start,         \* MainWindow.btn_start is enabled
    btn_stop,          \* MainWindow.btn_stop is enabled
    thread,            \* MainWindow._thread: "none" or "running"
    lang,              \* MainWindow.lang
    forms,             \* MainWindow.forms holds the form of the current tab
    emitted,           \* history: the signals the worker of this run emitted
    written,           \* history: what the worker of this run wrote to json_path
    workers,           \* history: workers started whose signal is not yet handled
    input,             \* the function called on its own, and its arguments
    output             \* what that call returned

args == <<corpus, tab, max_pages, delay_s, exposed_items, view_info>>

loopVars == <<page, page_links, all_links, seen, empty_streak, no_new_streak>>

expandVars == <<periodical_pages, idx, out_list, out_set>>

histVars == <<gets, got, disc, emptyRun, noNewRun, further, scen>>

winVars == <<btn_start, btn_stop, thread, lang, forms, emitted, written, workers>>

callVars == <<input, output>>

vars == <<args, stop, pc, view, loopVars, expandVars, result, failure, log,
          late, histVars, obs, stopCtx, winVars, callVars>>

Event(op, p, items, v) == [op |-> op, page |-> p, items |-> items, view |-> v]

Slept == Event("sleep", 0, NoItems, NoView)

\* (a variant: the delay is never applied)
SleepNever(l) == l

\* time.sleep(delay_s) under `if delay_s > 0`
Sleep(l) == IF delay_s > 0 THEN Append(l, Slept) ELSE l

\* the requests issued while the flag is set
Late(e) == IF stop THEN Append(late, e) ELSE late

Stripped(links) == [i \in 1..Len(links) |-> strip_language_param(links[i])]

\* the links of a response, appended to the order of discovery
Discovered(links) == AppendNew(disc, Range(disc), Stripped(links))

NoObs == [where |-> "none", acc |-> <<>>]

NoCtx == [pc |-> "none", page |-> 0, idx |-> 0]

\* no function is called on its own
NoCall == [fn |-> "none"]

\* the call has not returned
NotReturned == [returned |-> FALSE]

\* no output file
NoFile == [state |-> "none", items |-> <<>>]

InitOf(c, tabs, budget, infos) ==
    /\ corpus = c
    /\ tab \in tabs
    /\ max_pages \in 0..budget
    /\ delay_s \in {0, 1}
    /\ exposed_items \in ExposedItems
    /\ view_info \in infos
    /\ stop = FALSE
    /\ pc = "start"
    /\ view = NoView
    /\ page = 0
    /\ page_links = <<>>
    /\ all_links = <<>>
    /\ seen = {}
    /\ empty_streak = 0
    /\ no_new_streak = 0
    /\ periodical_pages = <<>>
    /\ idx = 1
    /\ out_list = <<>>
    /\ out_set = {}
    /\ result = <<>>
    /\ failure = ""
    /\ log = <<>>
    /\ gets = <<>>
    /\ late = <<>>
    /\ got = "none"
    /\ disc = <<>>
    /\ emptyRun = 0
    /\ noNewRun = 0
    /\ further = 0
    /\ scen = 0
    /\ obs = NoObs
    /\ stopCtx = NoCtx
    \* the window after _start_crawl_current_tab
    /\ btn_start = FALSE
    /\ btn_stop = TRUE
    /\ thread = "running"
    /\ lang = "de"
    /\ forms = TRUE
    /\ emitted = <<>>
    /\ written = NoFile
    /\ workers = 1
    /\ input = NoCall
    /\ output = NotReturned

InitWith(c, tabs, budget) == InitOf(c, tabs, budget, SuppliedViewInfos)

Init == InitWith("small", TabKeys, MaxPages)

\* both categories on the pages of at most one item
InitSingle == InitWith("single", TabKeys, MaxPages)

\* the register category on the block corpus
InitBlocks == InitWith("blocks", {"register"}, MaxBlockPages)

(***************************************************************************)
(* crawl_tab_links, up to the page loop: the view metadata is taken from   *)
(* view_info; when the DOM id or the display id is missing the bare        *)
(* category page is fetched and fills the missing fields; without both     *)
(* the crawl raises.                                                       *)
(***************************************************************************)
\* (a variant: what the bare category page shows is preferred to what was
\* supplied)
ResolvedBootFirst(vi, bi) ==
    MkView(Or(bi.view_name, Or(vi.view_name, "solr_searching")),
           Or(bi.view_display_id, vi.view_display_id),
           Or(bi.view_dom_id, vi.view_dom_id),
           Or(bi.theme, vi.theme),
           Or(bi.theme_token, vi.theme_token))

Resolved(vi, bi) ==
    MkView(Or(Or(vi.view_name, "solr_searching"), Or(bi.view_name, "solr_searching")),
           Or(Or(vi.view_display_id, ""), Or(bi.view_display_id, "")),
           Or(vi.view_dom_id, bi.view_dom_id),
           Or(vi.theme, bi.theme),
           Or(vi.theme_token, bi.theme_token))

NeedsBoot(vi) == vi.view_dom_id = "" \/ vi.view_display_id = ""

BootRequest == Event("boot", 0, NoItems, NoView)

\* (a variant: only the DOM id is required)
ViewMissingDomOnly(v) == v.view_dom_id = ""

\* `if not view_dom_id: raise ...` and `if not view_display_id: raise ...`
ViewMissing(v) == v.view_dom_id = "" \/ v.view_display_id = ""

ResolveViewInfo ==
    /\ pc = "start"
    /\ \E r \in IF NeedsBoot(view_info)
                THEN {<<"ok", b>> : b \in BootInfosOf(corpus)} \cup {Failed}
                ELSE {<<"ok", NoView>>} :
          LET v == IF r = Failed THEN NoView ELSE Resolved(view_info, r[2])
          IN  /\ view' = v
              /\ failure' = IF r = Failed THEN "boot"
                            ELSE IF ViewMissing(v) THEN "view" ELSE ""
              /\ pc' = IF failure' = "" THEN "loop" ELSE "failed"
    /\ log' = IF NeedsBoot(view_info) THEN Append(log, BootRequest) ELSE log
    /\ late' = IF NeedsBoot(view_info) THEN Late(BootRequest) ELSE late
    /\ UNCHANGED <<callVars, winVars, args, stop, loopVars, expandVars, result, histVars, obs, stopCtx>>

(***************************************************************************)
(* The head of `for page in range(max_pages)`: the range is exhausted, or  *)
(* the stop flag is read and ends the loop, or the iteration begins.       *)
(***************************************************************************)
\* (a variant: a range that lets one more index through)
PageRangeOffByOne == 0..max_pages

PageRange == 0..(max_pages - 1)

\* (a variant: the page loop never reads the flag)
LoopNeverStops == FALSE

\* stop_flag() at the start of a page iteration
LoopStops == stop

LoopHead ==
    /\ pc = "loop"
    /\ pc' = IF page \notin PageRange \/ LoopStops THEN "afterloop" ELSE "get"
    /\ obs' = IF page \in PageRange /\ LoopStops
              THEN [where |-> "loop", acc |-> all_links] ELSE obs
    /\ page_links' = <<>>
    /\ got' = "none"
    /\ log' = IF pc' = "get" THEN <<>> ELSE log
    /\ further' = IF pc' = "get" /\ (further > 0 \/ noNewRun >= 2) /\ further < 3
                  THEN further + 1 ELSE further
    /\ UNCHANGED <<callVars, winVars, args, stop, view, page, all_links, seen, empty_streak,
                   no_new_streak, expandVars, result, failure, late, gets,
                   disc, emptyRun, noNewRun, scen, stopCtx>>

\* (a variant: the direct GET asks for the page before this one again)
GetRequestPreviousPage ==
    Event("get", IF page > 0 THEN page - 1 ELSE 0, exposed_items, NoView)

\* the direct GET of the visible URL of this page: build_visible_url puts the
\* exposed parameters and the page index into the query
GetRequest == Event("get", page, exposed_items, NoView)

\* (a variant: the failure of the direct GET is not caught)
OnGetFailureRaise == "failed"

\* `except Exception` around the direct GET: page_links stays empty and the
\* asynchronous request follows
OnGetFailure == "ajax"

\* (a variant: the asynchronous request follows every direct GET)
AfterGetAlwaysAjax(links) == "ajax"

\* `if not page_links:` after the direct GET
AfterGet(links) == IF links = <<>> THEN "ajax" ELSE "page"

DirectGet ==
    /\ pc = "get"
    /\ \E r \in Responses(corpus, tab) :
          /\ page_links' = IF r = Failed THEN <<>>
                           ELSE extract_links_from_html(tab, r[2])
          /\ got' = IF r = Failed THEN "fail"
                    ELSE IF page_links' = <<>> THEN "empty" ELSE "links"
          /\ pc' = IF r = Failed THEN OnGetFailure ELSE AfterGet(page_links')
    /\ failure' = IF pc' = "failed" THEN "get" ELSE failure
    /\ disc' = Discovered(page_links')
    /\ log' = Append(log, GetRequest)
    /\ late' = Late(GetRequest)
    /\ gets' = Append(gets, page)
    /\ UNCHANGED <<callVars, winVars, args, stop, view, page, all_links, seen, empty_streak,
                   no_new_streak, expandVars, result, emptyRun,
                   noNewRun, further, scen, obs, stopCtx>>

\* (a variant: the asynchronous request asks for the page after this one)
AjaxRequestNextPage == Event("ajax", page + 1, exposed_items, view)

\* drupal_views_ajax_fetch: the view metadata, the page index and the exposed
\* parameters are posted to /views/ajax
AjaxRequest == Event("ajax", page, exposed_items, view)

\* the asynchronous request for the same page; a failure is not caught
AjaxFetch ==
    /\ pc = "ajax"
    /\ \E r \in Responses(corpus, tab) :
          /\ page_links' = IF r = Failed THEN page_links
                           ELSE extract_links_from_html(tab, r[2])
          /\ failure' = IF r = Failed THEN "ajax" ELSE failure
          /\ pc' = IF r = Failed THEN "failed" ELSE "page"
    /\ disc' = Discovered(page_links')
    /\ log' = Append(log, AjaxRequest)
    /\ late' = Late(AjaxRequest)
    /\ UNCHANGED <<callVars, winVars, args, stop, view, page, all_links, seen, empty_streak,
                   no_new_streak, expandVars, result, gets, got, emptyRun,
                   noNewRun, further, scen, obs, stopCtx>>

(***************************************************************************)
(* The rest of the iteration: the empty streak, the accumulation of the    *)
(* page's links, the no-new streak and the delay.                          *)
(***************************************************************************)
LastOf(s, n) == SubSeq(s, Len(s) - n + 1, Len(s))

\* (a variant: every link of the page is appended, seen or not)
AccumulateAll(acc, sn, links) == acc \o Stripped(links)

\* for u in page_links: u = strip_language_param(u); skip if seen; append
Accumulate(acc, sn, links) == AppendNew(acc, sn, Stripped(links))

\* (a variant: the first empty page ends the loop)
EmptyBreakAtOne(es) == es >= 1

\* `if empty_streak >= 2: break`
EmptyBreak(es) == es >= 2

\* (variants: the loop ends at the first, or only at the third, page in a
\* row without a new link)
NoNewBreakAtOne(nns) == nns >= 1

NoNewBreakAtThree(nns) == nns >= 3

\* `if no_new_streak >= 2: break`
NoNewBreak(nns) == nns >= 2

\* (a variant: an empty page resets the no-new streak as well)
NoNewStreakResetOnEmpty(kind, nns) == IF kind = "nonew" THEN nns + 1 ELSE 0

\* no_new_streak after a page: `no_new_streak += 1` when no link was new,
\* `no_new_streak = 0` otherwise; an empty page leaves it (`continue`)
NoNewStreakAfter(kind, nns) ==
    IF kind = "nonew" THEN nns + 1
    ELSE IF kind = "new" THEN 0 ELSE nns

\* the block scenario: NumBlocks pages of BlockSize new viewer links each,
\* then a page with the links of the last one, then a page without a new link
ScenNext(acc, newCnt) ==
    IF scen # page THEN 0 - 1
    ELSE IF page < NumBlocks
    THEN (IF Len(page_links) = BlockSize /\ newCnt = BlockSize THEN page + 1 ELSE 0 - 1)
    ELSE IF page = NumBlocks
    THEN (IF Len(acc) >= BlockSize
             /\ Range(Stripped(page_links)) = Range(LastOf(acc, BlockSize))
          THEN page + 1 ELSE 0 - 1)
    ELSE IF page = NumBlocks + 1
    THEN (IF page_links # <<>> /\ newCnt = 0 THEN page + 1 ELSE 0 - 1)
    ELSE 0 - 1

ProcessPage ==
    /\ pc = "page"
    /\ LET acc == Accumulate(all_links, seen, page_links)
           new_cnt == Len(acc) - Len(all_links)
           kind == IF page_links = <<>> THEN "empty"
                   ELSE IF new_cnt = 0 THEN "nonew" ELSE "new"
           es == IF kind = "empty" THEN empty_streak + 1 ELSE 0
           nns == NoNewStreakAfter(kind, no_new_streak)
           broke == IF kind = "empty" THEN EmptyBreak(es)
                    ELSE kind = "nonew" /\ NoNewBreak(nns)
       IN  /\ empty_streak' = es
           /\ all_links' = IF kind = "empty" THEN all_links ELSE acc
           /\ seen' = seen \cup Range(Stripped(page_links))
           /\ no_new_streak' = nns
           /\ pc' = IF broke THEN "afterloop" ELSE "loop"
           /\ page' = IF broke THEN page ELSE page + 1
           /\ log' = IF broke \/ kind = "empty" THEN log ELSE Sleep(log)
           /\ emptyRun' = IF kind = "empty" THEN emptyRun + 1 ELSE 0
           /\ noNewRun' = IF kind = "new" THEN 0 ELSE noNewRun + 1
           /\ scen' = ScenNext(all_links, new_cnt)
    \* page_links is not read again before the next iteration assigns it
    /\ page_links' = <<>>
    /\ got' = "none"
    /\ UNCHANGED <<callVars, winVars, args, stop, view, expandVars, result, failure, late, gets,
                   disc, further, obs, stopCtx>>

(***************************************************************************)
(* After the page loop: the periodical category expands its container      *)
(* pages; expand_periodicals_via_periodical_pages returns its input when   *)
(* it holds no container link.                                             *)
(***************************************************************************)
AfterLoop ==
    /\ pc = "afterloop"
    /\ LET pages == IF tab = "periodical" THEN SelectSeq(all_links, IsContainer)
                    ELSE <<>>
       IN  /\ periodical_pages' = pages
           /\ pc' = IF pages = <<>> THEN "final" ELSE "visit"
           /\ out_list' = IF pages = <<>> THEN out_list ELSE all_links
           /\ out_set' = IF pages = <<>> THEN out_set ELSE Range(all_links)
    /\ idx' = 1
    /\ log' = <<>>
    /\ UNCHANGED <<callVars, winVars, args, stop, view, loopVars, result, failure, late,
                   histVars, obs, stopCtx>>

\* (a variant: the expansion pass never reads the flag)
VisitNeverStops == FALSE

\* stop_flag() at the start of a container-page visit
VisitStops == stop

\* the head of `for idx, purl in enumerate(periodical_pages, start=1)`
VisitHead ==
    /\ pc = "visit"
    /\ pc' = IF idx > Len(periodical_pages) \/ VisitStops THEN "filter" ELSE "fetch"
    /\ obs' = IF idx <= Len(periodical_pages) /\ VisitStops /\ obs.where = "none"
              THEN [where |-> "visit", acc |-> out_list] ELSE obs
    /\ log' = IF pc' = "fetch" THEN <<>> ELSE log
    /\ UNCHANGED <<callVars, winVars, args, stop, view, loopVars, expandVars, result, failure, late,
                   histVars, stopCtx>>

ContainerRequest == Event("container", idx, NoItems, NoView)

\* (a variant: the failure of a container page is not caught)
OnVisitFailureRaise == "failed"

\* `except Exception ... continue` around the fetch of a container page
OnVisitFailure == "visit"

\* one container page: a failed fetch is logged and the page skipped
VisitFetch ==
    /\ pc = "fetch"
    /\ \E r \in Responses(corpus, tab) :
          LET ids == IF r = Failed THEN <<>>
                     ELSE extract_iipimage_ids_anywhere(r[2])
              found == [i \in 1..Len(ids) |-> strip_language_param(ViewerLink(ids[i]))]
          IN  /\ out_list' = AppendNew(out_list, out_set, found)
              /\ out_set' = out_set \cup Range(found)
              /\ disc' = Discovered(found)
              /\ log' = IF r = Failed THEN Append(log, ContainerRequest)
                        ELSE Sleep(Append(log, ContainerRequest))
              /\ got' = IF r = Failed THEN "skipped" ELSE "read"
              /\ pc' = IF r = Failed THEN OnVisitFailure ELSE "visit"
    /\ failure' = IF pc' = "failed" THEN "container" ELSE failure
    /\ late' = Late(ContainerRequest)
    /\ idx' = idx + 1
    /\ UNCHANGED <<callVars, winVars, args, stop, view, loopVars, periodical_pages, result,
                   gets, emptyRun, noNewRun, further, scen, obs, stopCtx>>

\* "am Ende nur Ausgaben (iipimage)"
ViewerOnly(links) == Dedup(SelectSeq(Stripped(links), ContainsIipimage))

\* the list the expansion returns replaces all_links
FilterViewer ==
    /\ pc = "filter"
    /\ all_links' = ViewerOnly(out_list)
    /\ pc' = "final"
    /\ log' = <<>>
    /\ UNCHANGED <<callVars, winVars, args, stop, view, page, page_links, seen, empty_streak,
                   no_new_streak, expandVars, result, failure, late,
                   histVars, obs, stopCtx>>

\* the last pass of crawl_tab_links
FinalList(links) == Dedup(Stripped(links))

Finalize ==
    /\ pc = "final"
    /\ result' = FinalList(all_links)
    /\ pc' = "done"
    /\ UNCHANGED <<callVars, winVars, args, stop, view, loopVars, expandVars, failure, log,
                   late, histVars, obs, stopCtx>>

(***************************************************************************)
(* MainWindow._stop_crawl: the Stop button is enabled while a crawl runs.  *)
(***************************************************************************)
StopCrawl ==
    /\ btn_stop
    /\ pc \notin {"done", "failed"}
    /\ ~stop
    /\ stop' = TRUE
    /\ stopCtx' = [pc |-> IF pc \in {"start", "get", "ajax", "fetch"} THEN pc ELSE "idle",
                   page |-> IF pc \in {"get", "ajax"} THEN page ELSE 0,
                   idx |-> IF pc = "fetch" THEN idx ELSE 0]
    /\ UNCHANGED <<callVars, winVars, args, pc, view, loopVars, expandVars, result, failure, log,
                   late, histVars, obs>>

Crawl ==
    \/ ResolveViewInfo
    \/ LoopHead
    \/ DirectGet
    \/ AjaxFetch
    \/ ProcessPage
    \/ AfterLoop
    \/ VisitHead
    \/ VisitFetch
    \/ FilterViewer
    \/ Finalize

Next == Crawl \/ StopCrawl

Spec == Init /\ [][Next]_vars

\* every network call returns and the worker thread keeps running; the pages
\* hold at most one item
FairSpec == InitSingle /\ [][Next]_vars /\ WF_vars(Crawl)

\* a category other than periodical never enters the expansion pass
CrawlRegister ==
    \/ ResolveViewInfo
    \/ LoopHead
    \/ DirectGet
    \/ AjaxFetch
    \/ ProcessPage
    \/ AfterLoop
    \/ Finalize

NextRegister == CrawlRegister \/ StopCrawl

SpecBlocks == InitBlocks /\ [][NextRegister]_vars

\* the register category, started with and without the display id and the
\* DOM id, on a site whose category page shows them or not
InitViews == InitOf("views", {"register"}, MaxViewPages, ViewSettings)

SpecViews == InitViews /\ [][NextRegister]_vars

\* view settings supplied with any of the five fields present or missing
SuppliedFields ==
    {MkView(n, d, m, t, k) : n \in {"", "s"}, d \in {"", "s"}, m \in {"", "s"},
                             t \in {"", "s"}, k \in {"", "s"}}

\* the register category started with any of these settings, on a site whose
\* category page shows all five fields or none
InitFields == InitOf("fields", {"register"}, MaxViewPages, SuppliedFields)

SpecFields == InitFields /\ [][NextRegister]_vars

(***************************************************************************)
(* The window and the worker.  CrawlWorker.run calls crawl_tab_links,      *)
(* writes the link list to json_path and emits done; whatever raises on    *)
(* the way makes it emit failed.  The window starts a worker on a click on *)
(* Start, sets the flag on a click on Stop, and handles the worker's       *)
(* signal in _on_done or _on_failed.                                       *)
(***************************************************************************)
Langs == {"de", "cs"}

\* the window after construction: no crawl yet
IdleWindow ==
    /\ corpus = "single"
    /\ tab = "register"
    /\ max_pages = 0
    /\ delay_s = 0
    /\ exposed_items \in ExposedItems
    /\ view_info \in SuppliedViewInfos
    /\ stop = FALSE
    /\ pc = "idle"
    /\ view = NoView
    /\ page = 0
    /\ page_links = <<>>
    /\ all_links = <<>>
    /\ seen = {}
    /\ empty_streak = 0
    /\ no_new_streak = 0
    /\ periodical_pages = <<>>
    /\ idx = 1
    /\ out_list = <<>>
    /\ out_set = {}
    /\ result = <<>>
    /\ failure = ""
    /\ log = <<>>
    /\ gets = <<>>
    /\ late = <<>>
    /\ got = "none"
    /\ disc = <<>>
    /\ emptyRun = 0
    /\ noNewRun = 0
    /\ further = 0
    /\ scen = 0
    /\ obs = NoObs
    /\ stopCtx = NoCtx
    /\ btn_start = TRUE
    /\ btn_stop = FALSE
    /\ thread = "none"
    /\ lang = "de"
    /\ forms \in BOOLEAN
    /\ emitted = <<>>
    /\ written = NoFile
    /\ workers = 0

InitWindow == IdleWindow /\ input = NoCall /\ output = NotReturned

\* (a variant: the Start button stays enabled while the crawl runs)
StartLeavesButtonEnabled == TRUE

\* self.btn_start.setEnabled(False)
StartButtonAfterStart == FALSE

\* a click on Start: without a folder or without the form of the tab nothing
\* is started; otherwise the flag is cleared, the buttons are switched and a
\* worker is started with the settings of the window
StartClick ==
    /\ btn_start
    /\ \E folder_ok \in BOOLEAN :
          IF ~folder_ok \/ ~forms
          THEN UNCHANGED vars
          ELSE /\ stop' = FALSE
               /\ btn_start' = StartButtonAfterStart
               /\ btn_stop' = TRUE
               /\ thread' = "running"
               /\ workers' = workers + 1
               /\ tab' \in TabKeys
               /\ max_pages' \in 0..MaxWindowPages
               /\ delay_s' \in {0, 1}
               /\ pc' = "start"
               /\ view' = NoView
               /\ page' = 0
               /\ page_links' = <<>>
               /\ all_links' = <<>>
               /\ seen' = {}
               /\ empty_streak' = 0
               /\ no_new_streak' = 0
               /\ periodical_pages' = <<>>
               /\ idx' = 1
               /\ out_list' = <<>>
               /\ out_set' = {}
               /\ result' = <<>>
               /\ failure' = ""
               /\ log' = <<>>
               /\ gets' = <<>>
               /\ late' = <<>>
               /\ got' = "none"
               /\ disc' = <<>>
               /\ emptyRun' = 0
               /\ noNewRun' = 0
               /\ further' = 0
               /\ scen' = 0
               /\ obs' = NoObs
               /\ stopCtx' = NoCtx
               /\ emitted' = <<>>
               /\ written' = NoFile
               /\ UNCHANGED <<corpus, exposed_items, view_info, lang, forms, callVars>>

\* (a variant: the links are written last first)
OutputItemsReversed(links) ==
    [i \in 1..Len(links) |->
        [url |-> strip_language_param(links[Len(links) + 1 - i]),
         outdir |-> "folder", pages |-> ""]]

\* items = [{"url": strip_language_param(u), "outdir": ..., "pages": ""} for u in links]
OutputItems(links) ==
    [i \in 1..Len(links) |->
        [url |-> strip_language_param(links[i]), outdir |-> "folder", pages |-> ""]]

\* os.makedirs, open and json.dump after crawl_tab_links returned: the file is
\* written, or one of the calls raises and the file is missing or incomplete
WriteOutput ==
    /\ pc = "done"
    /\ \/ /\ written' = [state |-> "written", items |-> OutputItems(result)]
          /\ pc' = "written"
          /\ failure' = failure
       \/ /\ written' \in {NoFile, [state |-> "partial", items |-> <<>>]}
          /\ pc' = "failed"
          /\ failure' = "write"
    /\ UNCHANGED <<callVars, args, stop, view, loopVars, expandVars, result, log, late,
                   histVars, obs, stopCtx, btn_start, btn_stop, thread, lang,
                   forms, emitted, workers>>

\* self.done.emit(links, self.json_path)
EmitDone ==
    /\ pc = "written"
    /\ emitted' = Append(emitted, "done")
    /\ pc' = "finished"
    /\ UNCHANGED <<callVars, args, stop, view, loopVars, expandVars, result, failure, log,
                   late, histVars, obs, stopCtx, btn_start, btn_stop, thread,
                   lang, forms, written, workers>>

\* `except Exception as e: self.failed.emit(str(e))`
EmitFailed ==
    /\ pc = "failed"
    /\ emitted' = Append(emitted, "failed")
    /\ pc' = "finished"
    /\ UNCHANGED <<callVars, args, stop, view, loopVars, expandVars, result, failure, log,
                   late, histVars, obs, stopCtx, btn_start, btn_stop, thread,
                   lang, forms, written, workers>>

\* _on_done and _on_failed: the buttons are switched back and the thread is
\* cleaned up
OnSignal(sig) ==
    /\ pc = "finished"
    /\ emitted # <<>> /\ emitted[Len(emitted)] = sig
    /\ btn_start' = TRUE
    /\ btn_stop' = FALSE
    /\ thread' = "none"
    /\ workers' = workers - 1
    /\ pc' = "idle"
    /\ UNCHANGED <<callVars, args, stop, view, loopVars, expandVars, result, failure, log,
                   late, histVars, obs, stopCtx, lang, forms, emitted, written>>

OnDone == OnSignal("done")

OnFailed == OnSignal("failed")

\* a click on Stop after crawl_tab_links has returned or raised and before the
\* signal is handled
StopLate ==
    /\ btn_stop
    /\ pc \in {"done", "failed"}
    /\ ~stop
    /\ stop' = TRUE
    /\ stopCtx' = [pc |-> "idle", page |-> 0, idx |-> 0]
    /\ UNCHANGED <<callVars, args, pc, view, loopVars, expandVars, result, failure, log,
                   late, histVars, obs, winVars>>

\* _set_lang: the language is set and the forms are loaded again, which may
\* fail for the current tab
SetLang ==
    /\ lang' \in Langs
    /\ forms' \in BOOLEAN
    /\ UNCHANGED <<callVars, args, stop, pc, view, loopVars, expandVars, result, failure,
                   log, late, histVars, obs, stopCtx, btn_start, btn_stop, thread,
                   emitted, written, workers>>

Worker == Crawl \/ WriteOutput \/ EmitDone \/ EmitFailed

NextWindow ==
    \/ Worker
    \/ StartClick
    \/ StopCrawl
    \/ StopLate
    \/ SetLang
    \/ OnDone
    \/ OnFailed

SpecWindow == InitWindow /\ [][NextWindow]_vars

(***************************************************************************)
(* The functions called on their own: the arguments are drawn by the       *)
(* initial predicate, the call stores what the function returns.           *)
(***************************************************************************)
\* what a document can hold: the items of the small corpus, one more inline
\* identifier, an anchor inside the result container, an anchor to another
\* host, and an anchor to a viewer page with more path, a language parameter
\* and no www
HtmlItems(t) ==
    Items(t) \cup
    {InlineId(NumIds + 1),
     MkItem(TRUE, TRUE, MkUrl("www", t, 2, "", FALSE, TRUE)),
     Anchor(MkUrl("other", t, 1, "", FALSE, FALSE)),
     Anchor(MkUrl("bare", "iipimage", 1, "x", TRUE, FALSE))}

\* the references normalize_pf_link and strip_language_param are given
Hrefs ==
    {[MkUrl(h, p, i, t, l, f) EXCEPT !.query = q] :
        h \in {"rel", "www", "bare", "other"},
        p \in {"iipimage", "periodical", "register", "other"},
        i \in 0..NumIds, t \in {"", "x", "iipimage"},
        l \in BOOLEAN, f \in BOOLEAN, q \in {"", "raw", "enc"}}

Documents(t) == UNION {[1..n -> HtmlItems(t)] : n \in 0..MaxHtmlItems}

ExtractCalls ==
    {[fn |-> "extract_links_from_html", tab |-> t, html |-> h] :
        t \in TabKeys, h \in Documents("register") \cup Documents("periodical")}

Returned(v) == [returned |-> TRUE, value |-> v]

CallExtract ==
    /\ input.fn = "extract_links_from_html"
    /\ ~output.returned
    /\ output' = Returned(extract_links_from_html(input.tab, input.html))
    /\ UNCHANGED <<args, stop, pc, view, loopVars, expandVars, result, failure,
                   log, late, histVars, obs, stopCtx, winVars, input>>

InitExtract == IdleWindow /\ forms /\ input \in ExtractCalls /\ output = NotReturned

SpecExtract == InitExtract /\ [][CallExtract]_vars

\* the same reference with a language parameter added to its query
WithLanguage(u) == [u EXCEPT !.lang = TRUE]

\* normalize_pf_link(tab, href) for every category and reference; strip_language_param
\* for every reference normalize_pf_link accepts for some category, and for
\* the links it returns
NormalizeCalls ==
    {[fn |-> "normalize_pf_link", tab |-> t, url |-> h] : t \in TabKeys, h \in Hrefs}

StripCalls ==
    {[fn |-> "strip_language_param", tab |-> t, url |-> u] :
        t \in TabKeys,
        u \in {h \in Hrefs : \E k \in TabKeys : normalize_pf_link(k, h) # NoLink}}

\* the function a call names
Apply(call, u) ==
    IF call.fn = "normalize_pf_link" THEN normalize_pf_link(call.tab, u)
    ELSE strip_language_param(u)

\* the function is applied to the reference
CallOnce ==
    /\ input.fn \in {"normalize_pf_link", "strip_language_param"}
    /\ ~output.returned
    /\ output' = Returned(Apply(input, input.url))
    /\ UNCHANGED <<args, stop, pc, view, loopVars, expandVars, result, failure,
                   log, late, histVars, obs, stopCtx, winVars, input>>

\* the function is applied to what it returned
CallAgain ==
    /\ input.fn \in {"normalize_pf_link", "strip_language_param"}
    /\ output.returned
    /\ output.value # NoLink
    /\ DOMAIN output = {"returned", "value"}
    /\ output' = [returned |-> TRUE, value |-> output.value,
                  again |-> Apply(input, output.value)]
    /\ UNCHANGED <<args, stop, pc, view, loopVars, expandVars, result, failure,
                   log, late, histVars, obs, stopCtx, winVars, input>>

\* the function is applied to the reference with a language parameter added
CallWithLanguage ==
    /\ input.fn \in {"normalize_pf_link", "strip_language_param"}
    /\ output.returned
    /\ output.value # NoLink
    /\ DOMAIN output = {"returned", "value", "again"}
    /\ output' = [returned |-> TRUE, value |-> output.value,
                  again |-> output.again,
                  localized |-> Apply(input, WithLanguage(input.url))]
    /\ UNCHANGED <<args, stop, pc, view, loopVars, expandVars, result, failure,
                   log, late, histVars, obs, stopCtx, winVars, input>>

NextNormalize == CallOnce \/ CallAgain \/ CallWithLanguage

InitNormalize ==
    IdleWindow /\ forms /\ input \in NormalizeCalls \cup StripCalls
               /\ output = NotReturned

SpecNormalize == InitNormalize /\ [][NextNormalize]_vars

(***************************************************************************)
(* Default option of a radio group.  An option is a label and a value; the *)
(* strings are the ones below, and lower, strip and the substring test are *)
(* tabulated on them.                                                      *)
(***************************************************************************)
\* (Vse stands for the Czech word written with s-caron)
OptionValues == {"", "All", "1"}
OptionLabels == {"Alle", "Vse", " All ", "Halle", "Foo"}

\* str.lower()
lower(x) ==
    CASE x = "All" -> "all"
      [] x = " All " -> " all "
      [] x = "Alle" -> "alle"
      [] x = "Vse" -> "vse"
      [] x = "Halle" -> "halle"
      [] x = "Foo" -> "foo"
      [] OTHER -> x

\* str.strip(), and re.sub(r"\s+", " ", s).strip() of _clean_label
strip(x) == IF x = " All " THEN "All" ELSE IF x = " all " THEN "all" ELSE x

\* `w in x`
Contains(x, w) ==
    <<x, w>> \in {<<"alle", "alle">>, <<"halle", "alle">>,
                  <<"vse", "vse">>}

\* the least index of a non-empty set of indices: the first hit of a loop
FirstOf(S) == CHOOSE i \in S : \A j \in S : i <= j

\* (a variant: one pass that takes the first option whose value or label
\* means "all")
PickSinglePass(opts) ==
    LET n == Len(opts)
        empties == {i \in 1..n : opts[i].val = ""}
        alls == {i \in 1..n :
                    \/ lower(opts[i].val) = "all"
                    \/ LET low == lower(strip(opts[i].lab))
                       IN  Contains(low, "alle") \/ Contains(low, "vse")
                           \/ low = "all"}
    IN  IF n = 0 THEN ""
        ELSE IF empties # {} THEN opts[FirstOf(empties)].val
        ELSE IF alls # {} THEN opts[FirstOf(alls)].val
        ELSE opts[1].val

pick_default_option(opts) ==
    LET n == Len(opts)
        empties == {i \in 1..n : opts[i].val = ""}
        byValue == {i \in 1..n : lower(opts[i].val) = "all"}
        byLabel == {i \in 1..n :
                       LET low == lower(strip(opts[i].lab))
                       IN  Contains(low, "alle") \/ Contains(low, "vse")
                           \/ low = "all"}
    IN  IF n = 0 THEN ""
        ELSE IF empties # {} THEN opts[FirstOf(empties)].val
        ELSE IF byValue # {} THEN opts[FirstOf(byValue)].val
        ELSE IF byLabel # {} THEN opts[FirstOf(byLabel)].val
        ELSE opts[1].val

Options == {[lab |-> l, val |-> v] : l \in OptionLabels, v \in OptionValues}

\* the inputs of a radio group: the options in document order and the
\* position of the input that carries the attribute checked (0: none)
OptionLists == UNION {[1..n -> Options] : n \in 0..MaxOptions}

RadioGroups ==
    {g \in [fn : {"add_radio_group"}, inputs : OptionLists, checked : 0..MaxOptions] :
        g.checked <= Len(g.inputs)}

\* opts.append((_clean_label(lab), val)) for every input
CleanOptions(inputs) ==
    [i \in 1..Len(inputs) |-> [lab |-> strip(inputs[i].lab), val |-> inputs[i].val]]

\* the default of the group: the value of the checked input, otherwise
\* pick_default_option of the options
AddRadioGroup ==
    /\ input.fn = "add_radio_group"
    /\ ~output.returned
    /\ output' = Returned(IF input.checked # 0
                          THEN input.inputs[input.checked].val
                          ELSE pick_default_option(CleanOptions(input.inputs)))
    /\ UNCHANGED <<args, stop, pc, view, loopVars, expandVars, result, failure,
                   log, late, histVars, obs, stopCtx, winVars, input>>

InitOptions == IdleWindow /\ forms /\ input \in RadioGroups /\ output = NotReturned

SpecOptions == InitOptions /\ [][AddRadioGroup]_vars

(***************************************************************************)
(* load_form_spec.  The form is the sequence of its input, select and      *)
(* textarea elements in document order.  A control has a tag, a type       *)
(* attribute ("" when there is none), a name attribute ("" when missing or *)
(* empty), the attribute disabled or not, and a place: 0 outside any       *)
(* container, 1 inside the widget container, 2 inside a container that     *)
(* also holds a submit button.                                             *)
(***************************************************************************)
INPUT_TEXT_TYPES == {"text", "search", "number", "tel", "email", "url"}

InputTypes == {"text", "", "radio", "checkbox", "hidden", "submit"}

FieldNames == {"", "a", "b"}

\* the controls of the forms: every tag and type with a name, enabled, in
\* every place; disabled or unnamed ones as text inputs, radio buttons and
\* selects outside the container with the submit button
Controls ==
    {c \in [tag : {"input", "select", "textarea"}, type : InputTypes,
            name : FieldNames, disabled : BOOLEAN, place : 0..2] :
        /\ c.tag # "input" => c.type = ""
        /\ (c.disabled \/ c.name = "")
              => /\ c.place # 2
                 /\ c.tag # "textarea"
                 /\ c.tag = "input" => c.type \in {"text", "radio"}}

Forms == UNION {[1..n -> Controls] : n \in 0..MaxControls}

is_ignored_input(inp) ==
    inp.type \in {"submit", "button", "image", "hidden", "reset"} \/ inp.disabled

is_ignored_control(c) ==
    IF c.tag = "input" THEN is_ignored_input(c)
    ELSE IF c.tag \in {"select", "textarea"} THEN c.disabled
    ELSE TRUE

MkWidget(k, n) == [kind |-> k, name |-> n]

\* seen_names: every add_* function appends a widget and adds its name
seen_names(widgets) == {widgets[i].name : i \in 1..Len(widgets)}

\* (a variant: a name seen before is added again)
AddAgain(widgets, k, n) ==
    IF n = "" THEN widgets ELSE Append(widgets, MkWidget(k, n))

\* add_radio_group, add_checkbox_group, add_select, add_text:
\* `if not name or name in seen_names: return`, else a widget is appended
Add(widgets, k, n) ==
    IF n = "" \/ n \in seen_names(widgets) THEN widgets
    ELSE Append(widgets, MkWidget(k, n))

\* the add function of kind k called for each control of cs in turn
RECURSIVE AddEach(_, _, _)
AddEach(widgets, k, cs) ==
    IF cs = <<>> THEN widgets
    ELSE AddEach(Add(widgets, k, Head(cs).name), k, Tail(cs))

\* `w.select_one("input[type=submit], button[type=submit]")`
HoldsSubmit(cs) ==
    \E i \in 1..Len(cs) :
        \/ cs[i].place = 2
        \/ cs[i].tag = "input" /\ cs[i].type = "submit"

\* the controls of the containers in the order the first pass visits them:
\* the containers found, or the whole form when none is found; a container
\* that holds a submit button is skipped
WrapperControls(form) ==
    LET inWidget(c) == c.place = 1
        inSubmitBox(c) == c.place = 2
        contained(c) == c.place # 0
        w == SelectSeq(form, inWidget)
    IN  IF SelectSeq(form, contained) # <<>>
        THEN (IF HoldsSubmit(w) THEN <<>> ELSE w)
        ELSE (IF HoldsSubmit(form) THEN <<>> ELSE form)

\* the first pass over one container: the text inputs as they come, then the
\* radio groups, the checkbox groups, the selects and the textareas
WrapperPass(widgets, cs) ==
    LET text(c) == c.tag = "input" /\ ~is_ignored_input(c)
                   /\ c.type \in INPUT_TEXT_TYPES
        radio(c) == c.tag = "input" /\ ~is_ignored_input(c) /\ c.type = "radio"
        check(c) == c.tag = "input" /\ ~is_ignored_input(c) /\ c.type = "checkbox"
        sel(c) == c.tag = "select" /\ ~is_ignored_control(c)
        area(c) == c.tag = "textarea" /\ ~is_ignored_control(c)
        w1 == AddEach(widgets, "text", SelectSeq(cs, text))
        w2 == AddEach(w1, "radio", SelectSeq(cs, radio))
        w3 == AddEach(w2, "checkbox", SelectSeq(cs, check))
        w4 == AddEach(w3, "select", SelectSeq(cs, sel))
    IN  AddEach(w4, "text", SelectSeq(cs, area))

\* the kind of widget the final sweep adds for a control, "" for none
SweepKind(c) ==
    IF c.tag = "select" THEN "select"
    ELSE IF c.tag = "textarea" THEN "text"
    ELSE IF c.type = "radio" THEN "radio"
    ELSE IF c.type = "checkbox" THEN "checkbox"
    ELSE IF c.type \in INPUT_TEXT_TYPES THEN "text"
    ELSE ""

\* the final sweep over all named controls of the form
RECURSIVE Sweep(_, _)
Sweep(widgets, cs) ==
    IF cs = <<>> THEN widgets
    ELSE LET c == Head(cs)
         IN  Sweep(IF is_ignored_control(c) \/ SweepKind(c) = "" THEN widgets
                   ELSE Add(widgets, SweepKind(c), c.name),
                   Tail(cs))

\* the widgets of the form specification
load_form_spec(form) == Sweep(WrapperPass(<<>>, WrapperControls(form)), form)

FormCalls == {[fn |-> "load_form_spec", form |-> f] : f \in Forms}

LoadFormSpec ==
    /\ input.fn = "load_form_spec"
    /\ ~output.returned
    /\ output' = Returned(load_form_spec(input.form))
    /\ UNCHANGED <<args, stop, pc, view, loopVars, expandVars, result, failure,
                   log, late, histVars, obs, stopCtx, winVars, input>>

InitForm == IdleWindow /\ forms /\ input \in FormCalls /\ output = NotReturned

SpecForm == InitForm /\ [][LoadFormSpec]_vars

(***************************************************************************)
(* Properties.                                                             *)
(***************************************************************************)
\* the page loop is over and crawl_tab_links has not raised
LoopLeft == pc \in {"afterloop", "visit", "fetch", "filter", "final", "done"}

InIteration == pc \in {"get", "ajax", "page"}

Terminated == pc \in {"done", "failed"}

\* the direct GETs so far were for the indices 0, 1, 2, ... below max_pages,
\* each once, and an iteration in progress is one of them
WithinBudget ==
    /\ Len(gets) <= max_pages
    /\ \A i \in 1..Len(gets) : gets[i] = i - 1
    /\ InIteration => page < max_pages
    /\ pc = "get" => Len(gets) = page
    /\ pc \in {"ajax", "page"} => Len(gets) = page + 1

\* C1: for every page budget, every sequence of responses and every moment of
\* cancellation the page loop runs at most max_pages iterations, for the
\* indices 0..max_pages-1 and each at most once; and when every network call
\* returns, the crawl ends: crawl_tab_links returns or raises.
C1_BoundedAndTerminates == []WithinBudget /\ <>Terminated

\* all max_pages pages of the largest budget were requested, the flag was set
\* on the way and the crawl returned
C1_Witness ==
    /\ pc = "done"
    /\ max_pages = MaxPages
    /\ Len(gets) = max_pages
    /\ stop

\* C2 (as stated): once two pages in a row have brought no new link, at most
\* two further page iterations begin, whatever the later pages return.
C2_AtMostTwoFurther == further <= 2

\* C2 (amended): a run of pages in a row without a new link, empty or all
\* seen, is at most four pages long and the fourth ends the loop: once two
\* such pages have passed, at most two further iterations follow unless one of
\* them brings a new link, which resets the no-new streak.
C2_NoNewRunEndsLoop ==
    /\ noNewRun <= 4
    /\ noNewRun = 4 => LoopLeft
    /\ (noNewRun >= 2 /\ InIteration) => noNewRun <= 3
    /\ no_new_streak <= 2 /\ empty_streak <= 2

\* empty, all seen, empty, all seen: the fourth page of the run ended the loop,
\* two iterations after the run had reached two pages
C2_Witness ==
    /\ noNewRun = 4
    /\ further = 2
    /\ pc = "done"
    /\ ~stop

\* C3 (as stated): in the register category, with budget left and no
\* cancellation, once pages 1..NumBlocks have each brought BlockSize new viewer
\* links and the next page has repeated the links of the last of them, the
\* loop is over and no further page is requested.
C3_StopsAfterRepeatedPage ==
    (scen >= NumBlocks + 1 /\ ~stop /\ max_pages > NumBlocks + 1)
        => /\ Len(gets) <= NumBlocks + 1
           /\ LoopLeft

\* C3 (amended): the repeated page leaves the no-new streak at 1, so with
\* budget left and no cancellation the loop goes on to the page after it (whose
\* asynchronous request may fail and abort the crawl); the
\* loop ends at that page when it too brings no new link (streak 2), after
\* NumBlocks + 2 requests, and the crawl returns exactly the
\* NumBlocks * BlockSize links of the first pages.
C3_StopsAfterSecondRepeat ==
    /\ (scen = NumBlocks + 1 /\ ~stop /\ max_pages > NumBlocks + 1)
          => /\ \/ pc = "loop" \/ InIteration
                \/ pc = "failed" /\ Len(gets) = NumBlocks + 2
             /\ page = NumBlocks + 1
             /\ no_new_streak = 1
             /\ Len(all_links) = NumBlocks * BlockSize
    /\ scen = NumBlocks + 2
          => /\ LoopLeft
             /\ no_new_streak = 2
             /\ Len(gets) = NumBlocks + 2
             /\ Len(all_links) = NumBlocks * BlockSize
    /\ (scen = NumBlocks + 2 /\ pc = "done")
          => /\ result = all_links
             /\ Len(result) = NumBlocks * BlockSize

\* the scenario ran without cancellation: the crawl returned after the page
\* that followed the repeated one
C3_Witness ==
    /\ scen = NumBlocks + 2
    /\ pc = "done"
    /\ Len(result) = NumBlocks * BlockSize
    /\ tab = "register"
    /\ ~stop

\* C4: a single page without a link from either fetch does not end the loop:
\* the loop is left after it only when the budget is used up or the flag was
\* observed, and otherwise the next index is the one requested; the second
\* such page in a row ends the loop, and its index is the last one requested.
C4_SecondEmptyPageStops ==
    /\ emptyRun <= 2
    /\ emptyRun = empty_streak
    /\ (emptyRun = 1 /\ LoopLeft) => (page = max_pages \/ obs.where = "loop")
    /\ (emptyRun = 1 /\ ~LoopLeft /\ pc # "failed")
          => /\ page = gets[Len(gets)] + IF pc \in {"loop", "get"} THEN 1 ELSE 0
             /\ Len(gets) >= 2 \/ pc \in {"loop", "get"}
    /\ emptyRun = 2
          => /\ LoopLeft
             /\ Len(gets) = page + 1
             /\ gets[Len(gets)] = page

\* two empty pages in a row with budget left and no cancellation: the first
\* was followed by the request of the second, the second by none
C4_Witness ==
    /\ emptyRun = 2
    /\ Len(gets) = 2
    /\ max_pages = MaxPages
    /\ pc = "done"
    /\ ~stop

\* the direct GET of this iteration found no link: its response matched
\* nothing, or the GET failed
GetFoundNothing == got \in {"fail", "empty"}

\* the iteration has issued the direct GET and then the asynchronous request,
\* both for the page index of the loop and with the exposed parameters
AjaxFollowedGet ==
    /\ Len(log) = 2
    /\ log[1].op = "get" /\ log[2].op = "ajax"
    /\ log[1].page = page /\ log[2].page = page
    /\ log[1].items = exposed_items /\ log[2].items = exposed_items

\* C5: whenever the direct GET of a page finds no link (nothing matches, or the
\* GET fails) the asynchronous request is issued for the same page index with
\* the same exposed parameters, and the empty streak is incremented only for a
\* page whose asynchronous result holds no link either, and for every such page.
C5_AjaxBeforeEmpty ==
    [][/\ (pc' = "ajax") => (GetFoundNothing' /\ log' = <<GetRequest'>>)
       /\ (pc' = "page" /\ GetFoundNothing') => AjaxFollowedGet'
       /\ (pc' = "page" /\ got' = "links")
             => (log' = <<GetRequest'>> /\ page_links' # <<>>)
       /\ (empty_streak' > empty_streak)
             => /\ pc = "page" /\ page_links = <<>>
                /\ GetFoundNothing /\ AjaxFollowedGet
                /\ empty_streak' = empty_streak + 1
       /\ (pc = "page" /\ pc' # "page" /\ page_links = <<>>)
             => empty_streak' = empty_streak + 1
      ]_vars

\* on a page after the first, the GET matched nothing and the asynchronous
\* request for the same page came back without a link
C5_Witness ==
    /\ pc = "page"
    /\ got = "empty"
    /\ page >= 1
    /\ page_links = <<>>
    /\ log = <<GetRequest, Event("ajax", page, exposed_items, view)>>

\* C6: a failed direct GET never makes the crawl raise: the asynchronous
\* request for the same page follows it.  A failed asynchronous request makes
\* crawl_tab_links raise: nothing is returned and nothing more is requested.
C6_OnlyAjaxFailureAborts ==
    /\ failure # "get"
    /\ got = "fail" => pc \in {"ajax", "page", "failed"}
    /\ (got = "fail" /\ pc \in {"page", "failed"}) => AjaxFollowedGet
    /\ failure = "ajax"
          => /\ pc = "failed"
             /\ result = <<>>
             /\ log[Len(log)].op = "ajax" /\ log[Len(log)].page = page
             /\ Len(gets) = page + 1
             /\ ~ENABLED Next

\* both requests of a page failed after earlier pages had brought links
C6_Witness ==
    /\ failure = "ajax"
    /\ got = "fail"
    /\ all_links # <<>>
    /\ pc = "failed"

\* the flag was observed, at the head of the page loop or of a container visit
Observed == obs.where # "none"

\* C7 (as stated): for every category the list returned after the flag was
\* observed is exactly the list accumulated at the observation.
C7_ReturnsAccumulated ==
    (pc = "done" /\ Observed) => result = obs.acc

\* C7 (amended): after the flag was observed no page's contribution is rolled
\* back and nothing is added; a category other than periodical returns
\* exactly the accumulated list, the periodical category returns, in
\* accumulation order, the accumulated links whose address holds /iipimage/
\* and drops the other ones, the plain container links among them.
C7_ReturnsAccumulatedViewerOnly ==
    (pc = "done" /\ Observed)
        => result = IF tab = "periodical"
                    THEN SelectSeq(obs.acc, ContainsIipimage)
                    ELSE obs.acc

\* the periodical crawl was cancelled in the page loop with a container link
\* and a viewer link accumulated
C7_Witness ==
    /\ pc = "done"
    /\ obs.where = "loop"
    /\ tab = "periodical"
    /\ \E i \in 1..Len(obs.acc) : IsContainer(obs.acc[i])
    /\ result # <<>>

\* C8: the flag is acted on only at the head of a page iteration and at the
\* head of a container visit; every request issued while the flag is set
\* belongs to what was in progress when it was set: the bootstrap fetch, the
\* GET or the asynchronous request of that page, or the fetch of that
\* container page.  No later page or container page is requested, also not by
\* the expansion that follows a cancelled page loop.
C8_OnlyRequestsInProgress ==
    /\ obs.where \in {"none", "loop", "visit"}
    /\ Observed => stop
    /\ stop = (stopCtx # NoCtx)
    /\ \A i \in 1..Len(late) :
          \/ stopCtx.pc = "start" /\ late[i].op = "boot"
          \/ /\ stopCtx.pc = "get"
             /\ late[i].op \in {"get", "ajax"}
             /\ late[i].page = stopCtx.page
          \/ /\ stopCtx.pc = "ajax"
             /\ late[i].op = "ajax"
             /\ late[i].page = stopCtx.page
          \/ /\ stopCtx.pc = "fetch"
             /\ late[i].op = "container"
             /\ late[i].page = stopCtx.idx
    /\ Len(late) <= 2

\* the flag was set before the GET of a page of a periodical crawl: the GET and
\* the asynchronous request of that page were issued, and the expansion that
\* followed requested none of the container pages
C8_Witness ==
    /\ Len(late) = 2
    /\ pc = "done"
    /\ tab = "periodical"
    /\ periodical_pages # <<>>
    /\ obs.where = "loop"

\* the page loop and what precedes the expansion pass
InLoopPhase == pc \in {"loop", "get", "ajax", "page", "afterloop"}

\* the members of s in the order in which disc holds them
InDiscoveryOrder(s) ==
    LET returned(u) == u \in Range(s)
    IN  s = SelectSeq(disc, returned)

\* C9: the returned list never holds two equal links and holds its links in
\* the order of first discovery (page order, then the order of extraction
\* within the page); all through the loop the accumulated list is free of
\* duplicates and the seen-set is the set of its elements.
C9_NoDuplicatesFirstSeenOrder ==
    /\ NoDup(all_links)
    /\ InLoopPhase => (seen = Range(all_links) /\ InDiscoveryOrder(all_links))
    /\ NoDup(result)
    /\ pc = "done" => InDiscoveryOrder(result)
    /\ (pc = "done" /\ tab # "periodical") => result = disc

\* two links were returned and a later page had shown only links already seen
C9_Witness ==
    /\ pc = "done"
    /\ Len(result) >= 2
    /\ no_new_streak >= 1

\* C10 (as stated): the periodical crawl returns only viewer-form links and no
\* container link, whenever the accumulated list holds container links: also
\* when container pages fail to load and when the expansion is cancelled
\* part-way.
C10_PeriodicalViewerOnly ==
    (pc = "done" /\ tab = "periodical")
        => \A i \in 1..Len(result) : IsViewer(result[i]) /\ ~IsContainer(result[i])

\* the expansion was cancelled after its first container page, with another
\* one left, and the crawl returned a container link whose address goes on
\* with /iipimage/
C10_NestedContainerReturned ==
    /\ pc = "done"
    /\ tab = "periodical"
    /\ Len(periodical_pages) >= 2
    /\ obs.where = "visit"
    /\ idx = 2
    /\ \E i \in 1..Len(result) : IsContainer(result[i])

\* s is the beginning of t
IsPrefix(s, t) == Len(s) <= Len(t) /\ SubSeq(t, 1, Len(s)) = s

\* C11: in the expansion pass a container page whose fetch fails is skipped:
\* the crawl does not raise, nothing is added or lost, the visit goes on with
\* the next container page in order (the index only moves forward by one per
\* fetch, so no page is fetched twice), and every viewer link collected so far
\* is in the returned list.
C11_FailedContainerSkipped ==
    [][/\ (pc = "fetch" /\ pc' # "fetch")
             => /\ pc' = "visit" /\ failure' = ""
                /\ idx' = idx + 1
                /\ log' = IF got' = "skipped" THEN <<[ContainerRequest EXCEPT !.page = idx]>>
                          ELSE Sleep(<<[ContainerRequest EXCEPT !.page = idx]>>)
                /\ IsPrefix(out_list, out_list')
                /\ got' = "skipped" => out_list' = out_list
       /\ (pc = "visit" /\ pc' # "visit")
             => /\ idx' = idx
                /\ pc' = IF idx <= Len(periodical_pages) /\ ~stop
                         THEN "fetch" ELSE "filter"
       /\ (pc \in {"visit", "fetch", "filter"}) => periodical_pages' = periodical_pages
       /\ failure' # "container"
       /\ (pc' = "done" /\ tab = "periodical" /\ periodical_pages # <<>>)
             => \A i \in 1..Len(out_list') :
                   IsViewer(out_list'[i]) => out_list'[i] \in Range(result')
      ]_vars

\* the fetch of the first container page failed after the page loop had
\* collected a viewer link, and the second container page is being fetched
C11_Witness ==
    /\ pc = "fetch"
    /\ idx = 2
    /\ got = "skipped"
    /\ failure = ""
    /\ \E i \in 1..Len(out_list) : IsViewer(out_list[i])

\* the crawl is past the resolution of the view settings
ViewResolved == pc \notin {"start", "failed"} \/ failure = "ajax"

\* C12: no asynchronous request carries an empty DOM id or display id: when
\* either is still missing after the fetch of the bare category page the crawl
\* raises before any result page is requested; otherwise both are set, and
\* every asynchronous request carries them.
C12_AjaxHasViewIds ==
    /\ \A i \in 1..Len(log) :
          log[i].op = "ajax"
             => /\ log[i].view.view_dom_id # "" /\ log[i].view.view_display_id # ""
                /\ log[i].view = view
    /\ ViewResolved => (view.view_dom_id # "" /\ view.view_display_id # "")
    /\ failure \in {"view", "boot"}
          => (pc = "failed" /\ gets = <<>> /\ log = <<BootRequest>> /\ disc = <<>>)
    /\ pc # "start"
          => LET dom == {view_info.view_dom_id, view.view_dom_id}
                 disp == {view_info.view_display_id, view.view_display_id}
             IN  /\ (dom = {""} \/ disp = {""}) => failure \in {"view", "boot"}
                 /\ failure = "view" => (dom = {""} \/ disp = {""})
                 /\ (failure # "boot" /\ view_info.view_dom_id # "")
                       => view.view_dom_id = view_info.view_dom_id
                 /\ (failure # "boot" /\ view_info.view_display_id # "")
                       => view.view_display_id = view_info.view_display_id

\* the crawl was started without the DOM id, the category page supplied it,
\* and the second page's asynchronous request came back
C12_Witness ==
    /\ view_info.view_dom_id = "" /\ view_info.view_display_id = "d"
    /\ view.view_dom_id = "m"
    /\ pc = "page"
    /\ page = 1
    /\ Len(log) = 2 /\ log[2].op = "ajax"

\* the last event of the iteration's log is the delay
EndsWithDelay(l) == l # <<>> /\ l[Len(l)].op = "sleep"

\* C13: after each page that brought at least one new link, when the delay is
\* positive, the delay is applied at the end of that iteration, before the
\* loop head is reached again and so before the request of the next page; with
\* a delay of zero nothing is applied.
C13_DelayAfterNewLinks ==
    [][/\ (pc = "page" /\ Len(all_links') > Len(all_links))
             => /\ pc' = "loop" /\ page' = page + 1 /\ gets' = gets
                /\ log' = IF delay_s > 0
                          THEN Append(log, [op |-> "sleep", page |-> 0,
                                            items |-> NoItems, view |-> NoView])
                          ELSE log
       /\ (pc = "loop" /\ pc' = "get" /\ page > 0 /\ noNewRun = 0)
             => (delay_s > 0 <=> EndsWithDelay(log))
       /\ (pc' = "get") => log' = <<>>
       /\ delay_s = 0 => ~EndsWithDelay(log')
      ]_vars

\* a page after the first was requested once the delay that followed a page
\* with new links was over
C13_Witness ==
    /\ pc = "ajax"
    /\ page = 1
    /\ delay_s > 0
    /\ noNewRun = 0
    /\ all_links # <<>>
    /\ log = <<GetRequest>>

\* C14 (as stated): the delay is not applied after the page at which the loop
\* ends, whether it ends on the empty streak, on the no-new streak or with the
\* last page of the budget.
C14_NoDelayAfterLastPage ==
    (pc = "afterloop" /\ ~Observed) => ~EndsWithDelay(log)

\* the last page of the budget brought a new link and the delay was applied
\* after it although no page follows
C14_DelayAfterBudgetEnd ==
    /\ pc = "afterloop"
    /\ ~Observed
    /\ page = max_pages
    /\ noNewRun = 0
    /\ EndsWithDelay(log)

\* crawl_tab_links raised
CrawlRaised == failure \in {"boot", "view", "ajax"}

\* the worker is between the start of run and its signal
WorkerBusy == pc \notin {"idle", "finished"}

\* the output file holds one object per returned link, in the order of the list
FileMatchesResult ==
    /\ written.state = "written"
    /\ Len(written.items) = Len(result)
    /\ \A i \in 1..Len(result) :
          /\ written.items[i].url = result[i]
          /\ written.items[i].pages = ""

\* C15 (as stated): a run emits exactly one of done and failed; every crawl
\* that returns normally has its output file written, one object per link in
\* the order of discovery, before done is emitted, and done is emitted; a
\* crawl that raises ends with failed and without an output file.
C15_EveryReturnWrites ==
    /\ Len(emitted) <= 1
    /\ WorkerBusy => emitted = <<>>
    /\ pc = "finished" => Len(emitted) = 1
    /\ (pc = "finished" /\ ~CrawlRaised)
          => (emitted = <<"done">> /\ FileMatchesResult)
    /\ (pc = "finished" /\ CrawlRaised)
          => (emitted = <<"failed">> /\ written = NoFile)

\* C15 (amended): a run emits exactly one of done and failed.  done is
\* emitted only after the output file was written, one object per returned
\* link in the order of discovery, also for the empty list; it is emitted for
\* every crawl that returns normally unless writing the file raises.  When the
\* crawl raises, failed is emitted and no file is written; when writing the
\* file raises, failed is emitted and the file is missing or incomplete.
C15_DoneOnlyAfterWrite ==
    /\ Len(emitted) <= 1
    /\ WorkerBusy => emitted = <<>>
    /\ pc = "finished" => Len(emitted) = 1
    /\ pc = "written" => (FileMatchesResult /\ ~CrawlRaised /\ failure = "")
    /\ emitted = <<"done">>
          => (FileMatchesResult /\ failure = "" /\ InDiscoveryOrder(result))
    /\ (pc = "finished" /\ failure = "") => emitted = <<"done">>
    /\ (pc = "finished" /\ failure # "") => emitted = <<"failed">>
    /\ CrawlRaised => written = NoFile
    /\ failure = "write" => written.state \in {"none", "partial"}
    /\ failure \in {"", "boot", "view", "ajax", "write"}

\* a cancelled crawl returned two links, the file was written and done emitted
C15_Witness ==
    /\ pc = "finished"
    /\ emitted = <<"done">>
    /\ stop
    /\ Len(result) = 2
    /\ Len(written.items) = 2

\* C16: at most one worker runs at any time: from a start until the handling
\* of the worker's signal the Start button is disabled and no other worker is
\* started, whatever clicks on Start and Stop, language switches and worker
\* steps occur; and the flag, once set while a crawl runs, is cleared only by
\* the next start, after that crawl's signal was handled.
C16_OneWorkerAtATime ==
    [][/\ workers' \in {0, 1}
       /\ (pc' # "idle") => (~btn_start' /\ btn_stop' /\ thread' = "running"
                             /\ workers' = 1)
       /\ (pc' = "idle") => (btn_start' /\ ~btn_stop' /\ thread' = "none"
                             /\ workers' = 0)
       /\ (workers' > workers) => (pc = "idle" /\ pc' = "start" /\ ~stop')
       /\ (stop /\ ~stop') => (pc = "idle" /\ pc' = "start")
       /\ (pc # "idle") => <<tab, max_pages, delay_s>>' = <<tab, max_pages, delay_s>>
      ]_vars

\* Stop was clicked during the GET of a page and the language switched; the
\* crawl has returned and its signal is not yet handled: the flag is still
\* set, the Start button disabled and the worker the only one
C16_Witness ==
    /\ pc = "finished"
    /\ stop
    /\ stopCtx.pc = "get"
    /\ lang = "cs"
    /\ ~btn_start
    /\ workers = 1

\* the viewer identifiers that occur in a document
IdsIn(html) ==
    {html[i].url.id : i \in {j \in 1..Len(html) :
                              html[j].url.prefix = "iipimage" /\ html[j].url.id > 0}}

\* where identifier k first occurs in a document
FirstAt(k, html) ==
    CHOOSE i \in 1..Len(html) :
        /\ html[i].url.prefix = "iipimage" /\ html[i].url.id = k
        /\ \A j \in 1..(i - 1) : ~(html[j].url.prefix = "iipimage" /\ html[j].url.id = k)

\* C17: for a category other than periodical and a document that holds at
\* least one viewer identifier, extract_links_from_html returns exactly one
\* canonical viewer link per distinct identifier, in the order in which the
\* identifiers first occur, and nothing derived from any anchor of the page.
C17_OneViewerLinkPerId ==
    (input.fn = "extract_links_from_html" /\ output.returned
     /\ input.tab # "periodical" /\ IdsIn(input.html) # {})
        => LET out == output.value
               html == input.html
           IN  /\ Len(out) = Cardinality(IdsIn(html))
               /\ \A i \in 1..Len(out) :
                     /\ out[i].id \in IdsIn(html)
                     /\ out[i] = [host |-> "www", prefix |-> "iipimage",
                                  id |-> out[i].id, tail |-> "",
                                  lang |-> FALSE, frag |-> FALSE, query |-> ""]
               /\ \A i, j \in 1..Len(out) :
                     i < j => FirstAt(out[i].id, html) < FirstAt(out[j].id, html)

\* the register category, a document with the second identifier before the
\* first, the first one twice, and an anchor to a record: two links returned
C17_Witness ==
    /\ input.fn = "extract_links_from_html" /\ output.returned
    /\ input.tab = "register"
    /\ Len(input.html) = 3
    /\ \E i \in 1..3 : input.html[i].anchor /\ input.html[i].url.prefix = "register"
    /\ Len(output.value) = 2
    /\ output.value[1].id = NumIds + 1
    /\ output.value[2].id = 1

\* C18: for every category and every reference normalize_pf_link accepts,
\* normalizing the result again returns it unchanged, and normalizing the
\* reference with a language parameter added returns the same result; the
\* same holds for strip_language_param.
C18_IdempotentAndLanguageInsensitive ==
    (input.fn \in {"normalize_pf_link", "strip_language_param"}
     /\ output.returned /\ output.value # NoLink)
        => /\ "again" \in DOMAIN output => output.again = output.value
           /\ "localized" \in DOMAIN output => output.localized = output.value

\* a relative reference to a record, with a fragment and other parameters in
\* a form urlencode does not produce and no language parameter, normalized
\* three times: once, again, and with the language parameter added
C18_Witness ==
    /\ input.fn = "normalize_pf_link"
    /\ input.url.host = "rel" /\ input.url.prefix = "register"
    /\ input.url.frag /\ ~input.url.lang /\ input.url.query = "raw"
    /\ DOMAIN output = {"returned", "value", "again", "localized"}
    /\ output.value.host = "www" /\ output.value.query = "enc"
    /\ ~output.value.frag /\ ~output.value.lang

\* the value is "all" in any letter case
ValueMeansAll(o) == o.val \in {"All", "all"}

\* the label, trimmed and in lower case, holds "alle" or "vse" or is "all"
LabelMeansAll(o) == o.lab \in {"Alle", "Vse", " All ", "Halle"}

\* the value of the first option of a non-empty set of positions
FirstValue(opts, S) == opts[CHOOSE i \in S : \A j \in S : i <= j].val

\* a radio group with options and no checked input has got its default
PickedDefault ==
    /\ input.fn = "add_radio_group" /\ output.returned
    /\ input.checked = 0 /\ Len(input.inputs) > 0

\* C19 as stated: with no option selected the default is the value of the
\* first option with an empty value, otherwise of the first option whose
\* value or label means "all", otherwise of the first option.
C19_FirstAllByValueOrLabel ==
    PickedDefault =>
        LET opts == input.inputs
            n == Len(opts)
            empties == {i \in 1..n : opts[i].val = ""}
            alls == {i \in 1..n : ValueMeansAll(opts[i]) \/ LabelMeansAll(opts[i])}
        IN  output.value = IF empties # {} THEN ""
                           ELSE IF alls # {} THEN FirstValue(opts, alls)
                           ELSE opts[1].val

\* C19 (amended): with no option selected the default is the value of the
\* first option with an empty value, otherwise of the first option whose
\* value is "all" in any letter case, otherwise of the first option whose
\* label holds "alle" or "vse" or is "all", otherwise of the first option;
\* an option that passes none of these tests is never preferred over the
\* first option.
C19_ValueAllBeforeLabelAll ==
    PickedDefault =>
        LET opts == input.inputs
            n == Len(opts)
            empties == {i \in 1..n : opts[i].val = ""}
            byValue == {i \in 1..n : ValueMeansAll(opts[i])}
            byLabel == {i \in 1..n : LabelMeansAll(opts[i])}
        IN  /\ output.value = IF empties # {} THEN ""
                              ELSE IF byValue # {} THEN FirstValue(opts, byValue)
                              ELSE IF byLabel # {} THEN FirstValue(opts, byLabel)
                              ELSE opts[1].val
            /\ output.value # opts[1].val
                 => \E i \in 1..n :
                       /\ opts[i].val = output.value
                       /\ \/ opts[i].val = ""
                          \/ ValueMeansAll(opts[i])
                          \/ LabelMeansAll(opts[i])

\* the first option has a label that means "all" and the value 1, the second
\* the label Foo and the value All: the default is All
C19_Witness ==
    /\ PickedDefault
    /\ Len(input.inputs) = 2
    /\ input.inputs[1] = [lab |-> "Alle", val |-> "1"]
    /\ input.inputs[2] = [lab |-> "Foo", val |-> "All"]
    /\ output.value = "All"

\* C20: the page loop is left normally only when the empty streak has
\* reached 2, or the no-new streak has reached 2, or all max_pages indices
\* have been processed, or the flag is observed at the start of an iteration;
\* and when it is left on the no-new streak, the page that ends it and every
\* page since the last page that contributed a new link added nothing: there
\* are at least two of them and the accumulated list did not grow.
C20_LoopExitCauses ==
    [][(pc # "afterloop" /\ pc' = "afterloop") =>
          \/ /\ pc = "loop"
             /\ page = max_pages /\ Len(gets) = max_pages
          \/ /\ pc = "loop"
             /\ page < max_pages /\ stop
          \/ /\ pc = "page"
             /\ page_links = <<>>
             /\ emptyRun' = 2 /\ empty_streak' = 2
          \/ /\ pc = "page"
             /\ page_links # <<>>
             /\ no_new_streak' = 2 /\ noNewRun' >= 2
             /\ all_links' = all_links
             /\ Range(Stripped(page_links)) \subseteq Range(all_links)]_vars

\* the loop was left on the no-new streak before the budget was used up and
\* without a stop request: two pages in a row gave only links already held
C20_Witness ==
    /\ pc = "afterloop"
    /\ no_new_streak = 2 /\ noNewRun = 2 /\ emptyRun = 0
    /\ page < max_pages
    /\ ~stop
    /\ all_links # <<>>

\* a step that issues a request of the kind op: the request is appended to
\* the requests of the iteration
Issues(op) == Len(log') = Len(log) + 1 /\ log'[Len(log')].op = op

\* C21: page requests are strictly sequential and never retried.  A direct
\* GET is the first request of its iteration, asks for the index of the
\* iteration and is the only direct GET for it, the indices so far being
\* 0, 1, 2, ... without a gap; an asynchronous request asks for the index of
\* the iteration and follows exactly one request, the direct GET of the same
\* index; and the index moves on by one only in the step that processes the
\* page, so no request for the next index comes before that step.
C21_SequentialNoRetry ==
    [][/\ Issues("get") =>
            /\ pc = "get" /\ log = <<>>
            /\ log'[1].page = page
            /\ Len(gets) = page
            /\ \A i \in 1..Len(gets) : gets[i] = i - 1
            /\ gets' = Append(gets, page)
       /\ Issues("ajax") =>
            /\ pc = "ajax" /\ Len(log) = 1
            /\ log[1].op = "get" /\ log[1].page = page
            /\ log'[2].page = page
            /\ gets' = gets /\ Len(gets) = page + 1
       /\ page' # page =>
            /\ pc = "page" /\ page' = page + 1
            /\ ~Issues("get") /\ ~Issues("ajax")
       /\ (pc \in {"get", "ajax"} /\ pc' \in {"get", "ajax", "page"}) => page' = page]_vars

\* the second index is being processed after its direct GET and its
\* asynchronous request, the first index having been requested once
C21_Witness ==
    /\ pc = "page" /\ page = 1
    /\ gets = <<0, 1>>
    /\ Len(log) = 2
    /\ log[1].op = "get" /\ log[1].page = 1
    /\ log[2].op = "ajax" /\ log[2].page = 1

ViewFields == {"view_name", "view_display_id", "view_dom_id", "theme", "theme_token"}

\* the supplied settings lack the DOM id or the display id
LacksAnId == view_info.view_dom_id = "" \/ view_info.view_display_id = ""

\* C22: the bare category page is fetched at the start of the crawl exactly
\* when the supplied view settings lack the DOM id or the display id, and at
\* no other time; and every field that was supplied keeps its supplied value
\* in the resolved settings and in every asynchronous request.
C22_BootOnlyFillsMissing ==
    [][/\ (pc = "start" /\ pc' # "start") => (Issues("boot") <=> LacksAnId)
       /\ Issues("boot") => pc = "start"
       /\ pc' \notin {"start", "failed"}
             => \A f \in ViewFields : view_info[f] # "" => view'[f] = view_info[f]
       /\ Issues("ajax")
             => \A f \in ViewFields :
                   view_info[f] # "" => log'[Len(log')].view[f] = view_info[f]]_vars

\* the display id and the theme were supplied, the DOM id and the token were
\* not; the category page shows all fields; an asynchronous request was sent
\* with the supplied display id and theme and the DOM id and token of the page
C22_Witness ==
    /\ view_info.view_display_id = "s" /\ view_info.theme = "s"
    /\ view_info.view_dom_id = "" /\ view_info.theme_token = ""
    /\ Len(log) = 2 /\ log[2].op = "ajax"
    /\ log[2].view.view_display_id = "s" /\ log[2].view.theme = "s"
    /\ log[2].view.view_dom_id = "b" /\ log[2].view.theme_token = "b"

\* load_form_spec has returned the widgets of a form
FormLoaded == input.fn = "load_form_spec" /\ output.returned

\* a control the claim lets become a widget: named, not disabled, and not a
\* submit, button, image, hidden or reset input
Eligible(c) ==
    /\ c.name # ""
    /\ ~c.disabled
    /\ ~(c.tag = "input" /\ c.type \in {"submit", "button", "image", "hidden", "reset"})

WidgetNames == {output.value[i].name : i \in 1..Len(output.value)}

\* C23 as stated: every eligible control of the form, wherever it sits and
\* whatever its type, has a widget with its field name, and every widget has
\* the name of an eligible control.
C23_EveryControlYieldsWidget ==
    FormLoaded =>
        LET form == input.form
        IN  /\ \A i \in 1..Len(form) :
                  Eligible(form[i]) => form[i].name \in WidgetNames
            /\ \A n \in WidgetNames :
                  \E i \in 1..Len(form) : Eligible(form[i]) /\ form[i].name = n

\* C23, what the code does: a form whose only control is a named input without
\* a type attribute, not disabled, outside any container, gets no widget
C23_UntypedInputDropped ==
    /\ FormLoaded
    /\ Len(input.form) = 1
    /\ input.form[1] = [tag |-> "input", type |-> "", name |-> "a",
                        disabled |-> FALSE, place |-> 0]
    /\ output.value = <<>>

\* C24: in every form specification load_form_spec returns, each widget's
\* field name is non-empty and no two widgets have the same field name,
\* however the controls are spread over the containers and the final sweep.
C24_NamesNonEmptyAndUnique ==
    FormLoaded =>
        LET widgets == output.value
        IN  /\ \A i \in 1..Len(widgets) : widgets[i].name # ""
            /\ \A i, j \in 1..Len(widgets) :
                  widgets[i].name = widgets[j].name => i = j
            /\ Len(widgets) <= Len(input.form)

\* a select outside any container comes before a text input of the same name
\* inside the widget container: the container pass adds the text widget, the
\* final sweep finds the name seen and adds nothing
C24_Witness ==
    /\ FormLoaded
    /\ Len(input.form) = 2
    /\ input.form[1].tag = "select" /\ input.form[1].place = 0
    /\ input.form[2].tag = "input" /\ input.form[2].type = "text"
    /\ input.form[2].place = 1
    /\ input.form[1].name = "a" /\ input.form[2].name = "a"
    /\ ~input.form[1].disabled /\ ~input.form[2].disabled
    /\ output.value = <<[kind |-> "text", name |-> "a"]>>

\* C25: the asynchronous request is sent for a page only when the direct GET
\* of that page gave no link.  When the direct GET gives at least one link,
\* the page is processed next, with no asynchronous request in between, and
\* the links processed are those of the direct response, unchanged.
C25_AjaxOnlyAfterEmptyGet ==
    [][/\ Issues("ajax")
             => /\ page_links = <<>> /\ got \in {"fail", "empty"}
                /\ Len(log) = 1 /\ log[1].op = "get" /\ log[1].page = page
       /\ (Issues("get") /\ page_links' # <<>>)
             => /\ pc' = "page" /\ got' = "links"
                /\ log' = <<log'[1]>>
       /\ (pc = "page" /\ got = "links")
             => /\ page_links # <<>>
                /\ Len(log) = 1 /\ log[1].op = "get" /\ log[1].page = page
                /\ pc' = "page" => (page_links' = page_links /\ log' = log)
                /\ pc' # "page"
                      => /\ ~Issues("ajax")
                         /\ seen' = seen \cup {strip_language_param(page_links[i]) :
                                                  i \in 1..Len(page_links)}]_vars

\* the direct GET of the second page gave links: the page is about to be
\* processed and the only request of the iteration is the direct GET
C25_Witness ==
    /\ pc = "page" /\ page = 1
    /\ got = "links" /\ page_links # <<>>
    /\ Len(log) = 1 /\ log[1].op = "get"
    /\ gets = <<0, 1>>

\* C26: the two streak counters are updated independently.  An empty page
\* adds one to the empty streak and leaves the no-new streak, the seen set
\* and the accumulated list as they are; a non-empty page sets the empty
\* streak to 0; the no-new streak is set to 0 by a page that adds a link, is
\* raised by one by a non-empty page that adds none, and is reset by nothing
\* else; no other step changes either counter; both stay within 0..2.
C26_StreaksIndependent ==
    /\ [](empty_streak \in 0..2 /\ no_new_streak \in 0..2)
    /\ [][/\ (pc = "page" /\ pc' # "page" /\ page_links = <<>>)
                => /\ empty_streak' = empty_streak + 1
                   /\ no_new_streak' = no_new_streak
                   /\ seen' = seen
                   /\ all_links' = all_links
          /\ (pc = "page" /\ pc' # "page" /\ page_links # <<>>)
                => /\ empty_streak' = 0
                   /\ no_new_streak' = IF Len(all_links') > Len(all_links)
                                       THEN 0 ELSE no_new_streak + 1
          /\ (no_new_streak' = 0 /\ no_new_streak # 0)
                => Len(all_links') > Len(all_links)
          /\ (pc # "page" \/ pc' = "page")
                => /\ empty_streak' = empty_streak
                   /\ no_new_streak' = no_new_streak]_vars

\* a page with new links, a page without a new link and an empty page have
\* been processed: the empty streak is 1 and the no-new streak is still 1
C26_Witness ==
    /\ pc = "loop" /\ page = 3
    /\ emptyRun = 1 /\ empty_streak = 1
    /\ no_new_streak = 1
    /\ all_links # <<>>

====
